---- MODULE Spec2Model ----
(***************************************************************************)
(* Model of the job orchestrator of src/src/extension.ts: the 'submit'     *)
(* handler of the webview panel, setupPythonEnvironment (provisioner),     *)
(* runAgent (credential check, job process, stream handlers, close         *)
(* handler) and the stdout progress parser.                                *)
(*                                                                         *)
(* Text is modelled as a sequence of tokens.  A token is a newline, a      *)
(* blank (any other whitespace character), a free-form word, or the text   *)
(* of one complete JSON value.                                             *)
(***************************************************************************)
EXTENDS Integers, Sequences, FiniteSets, TLC

\* ------------------------------------------------------------------ bounds
MaxChunkLen == 4      \* tokens of a stdout chunk fed to the parser
MaxStdout == 2        \* stdout chunks of one job process
MaxStderr == 2        \* stderr chunks of one job process
MaxExitCode == 5      \* numeric exit codes 0..MaxExitCode

\* ------------------------------------------------------------------ tokens
NL == "\n"
SP == " "
TextG == "Traceback"
TextH == "done."
P1 == "{\"type\":\"progress\",\"phase\":1,\"message\":\"scanning\"}"
P2 == "{\"type\":\"progress\",\"phase\":2,\"message\":\"refactoring\"}"
OtherRec == "{\"type\":\"log\",\"message\":\"hi\"}"
NoKindRec == "{\"message\":\"hi\"}"
Scalar == "42"
NullLit == "null"

Whitespace == {NL, SP}
JsonTexts == {P1, P2, OtherRec, NoKindRec, Scalar, NullLit}
Tokens == Whitespace \cup {TextG, TextH} \cup JsonTexts

\* ------------------------------------------------- String.prototype.trim
RECURSIVE TrimLeft(_)
TrimLeft(s) ==
    IF s = <<>> THEN <<>>
    ELSE IF Head(s) \in Whitespace THEN TrimLeft(Tail(s)) ELSE s

RECURSIVE TrimRight(_)
TrimRight(s) ==
    IF s = <<>> THEN <<>>
    ELSE IF s[Len(s)] \in Whitespace THEN TrimRight(SubSeq(s, 1, Len(s) - 1))
    ELSE s

Trim(s) == TrimRight(TrimLeft(s))

\* --------------------------------------------- String.prototype.split('\n')
\* Always yields at least one element; the empty text yields <<  <<>>  >>.
RECURSIVE SplitFrom(_, _, _)
SplitFrom(s, cur, acc) ==
    IF s = <<>> THEN Append(acc, cur)
    ELSE IF Head(s) = NL THEN SplitFrom(Tail(s), <<>>, Append(acc, cur))
    ELSE SplitFrom(Tail(s), Append(cur, Head(s)), acc)

Split(s) == SplitFrom(s, <<>>, <<>>)

\* Mutant: shift instead of pop, the first element.
PopFirst(a) == a[1]

\* Array.prototype.pop on the fresh array: its last element.
Pop(a) == a[Len(a)]

\* -------------------------------------------------------------- JSON.parse
NotBlank(t) == t \notin Whitespace

Undefined == "undefined"

\* The value a JSON text denotes, flattened to the three properties the
\* handler reads.  A number has no such properties (they read as undefined);
\* reading a property of null throws a TypeError.
JsonValue(t) ==
    CASE t = P1 -> [isNull |-> FALSE, type |-> "progress", phase |-> "1", message |-> "scanning"]
      [] t = P2 -> [isNull |-> FALSE, type |-> "progress", phase |-> "2", message |-> "refactoring"]
      [] t = OtherRec -> [isNull |-> FALSE, type |-> "log", phase |-> Undefined, message |-> "hi"]
      [] t = NoKindRec -> [isNull |-> FALSE, type |-> Undefined, phase |-> Undefined, message |-> "hi"]
      [] t = Scalar -> [isNull |-> FALSE, type |-> Undefined, phase |-> Undefined, message |-> Undefined]
      [] OTHER -> [isNull |-> TRUE, type |-> Undefined, phase |-> Undefined, message |-> Undefined]

\* JSON.parse accepts exactly one JSON value with optional surrounding
\* whitespace; anything else is a SyntaxError.
JsonParses(line) ==
    LET body == SelectSeq(line, NotBlank)
    IN  Len(body) = 1 /\ body[1] \in JsonTexts

JsonParse(line) == JsonValue(SelectSeq(line, NotBlank)[1])

\* ------------------------------------------------ stdout 'data' handler
PhaseReport(log) ==
    [kind |-> "Phase", message |-> <<"Phase ", log.phase, ": ", log.message>>]

RawReport(line) == [kind |-> "Raw", message |-> line]

\* Whether the body of the for loop throws on this line.
LineThrows(line) ==
    /\ Trim(line) # <<>>
    /\ \/ ~JsonParses(line)
       \/ JsonParse(line).isNull

\* The progress reports the body of the for loop makes for a line on which
\* it does not throw.
LineReports(line) ==
    IF Trim(line) # <<>> /\ JsonParse(line).type = "progress"
    THEN <<PhaseReport(JsonParse(line))>>
    ELSE <<>>

\* The try block: the for loop over the lines, left at the first throw.
RECURSIVE TryBlock(_, _)
TryBlock(lines, reps) ==
    IF lines = <<>> THEN [threw |-> FALSE, reports |-> reps]
    ELSE IF LineThrows(Head(lines)) THEN [threw |-> TRUE, reports |-> reps]
    ELSE TryBlock(Tail(lines), reps \o LineReports(Head(lines)))

\* Mutant: the catch block rethrows.
CatchBlockRethrows(output, reps) == [raised |-> TRUE, reports |-> reps]

\* The catch block: one report of the last line of the trimmed chunk.
CatchBlock(output, reps) ==
    LET lastLine == Pop(Split(Trim(output)))
    IN  [raised |-> FALSE,
         reports |-> IF lastLine # <<>> THEN Append(reps, RawReport(lastLine)) ELSE reps]

\* Mutant: the try statement stands inside the loop, so every line that
\* throws is reported raw and the loop goes on.
RECURSIVE TryEachLine(_)
TryEachLine(lines) ==
    IF lines = <<>> THEN <<>>
    ELSE (IF LineThrows(Head(lines)) THEN <<RawReport(Head(lines))>>
          ELSE LineReports(Head(lines))) \o TryEachLine(Tail(lines))

ParseProgressPerLine(output) ==
    [raised |-> FALSE, reports |-> TryEachLine(Split(Trim(output)))]

\* The progress reports of one stdout chunk, and whether the handler raises.
ParseProgress(output) ==
    LET t == TryBlock(Split(Trim(output)), <<>>)
    IN  IF t.threw THEN CatchBlock(output, t.reports)
        ELSE [raised |-> FALSE, reports |-> t.reports]

\* ------------------------------------------------------ the close handler
NullCode == 0 - 1     \* the exit code null of a process ended by a signal

CodeText(code) == IF code = NullCode THEN "null" ELSE ToString(code)

MsgCancelled == <<"AI Agent was cancelled by user.">>
MsgSuccess == <<"AI Agent finished successfully!">>
MsgGeneral == <<"Agent encountered a general error. Check the output panel for details.">>
MsgDiscovery == <<"Agent failed during Phase 1 (Discovery & Strategy). Check the output panel for details.">>
MsgExecution == <<"Agent failed during Phase 2 (Execution & Refactoring). Check the output panel for details.">>
MsgDocumentation == <<"Agent failed during Phase 3 (Documentation & Verification). Check the output panel for details.">>
MsgUnexpected(code) ==
    <<"Agent process failed with unexpected error code ", CodeText(code),
      ". Check the output panel for details.">>

\* Mutant: the case for code 4 is missing.
FailureMessageNoCase4(code) ==
    CASE code = 2 -> MsgDiscovery
      [] code = 3 -> MsgExecution
      [] code = 1 -> MsgGeneral
      [] OTHER -> MsgUnexpected(code)

\* The switch on the exit code of a failed run.
FailureMessage(code) ==
    CASE code = 2 -> MsgDiscovery
      [] code = 3 -> MsgExecution
      [] code = 4 -> MsgDocumentation
      [] code = 1 -> MsgGeneral
      [] OTHER -> MsgUnexpected(code)

\* Mutant: success is tested as !code, which null passes too.
ClassifyFalsyCode(cancelled, code) ==
    IF cancelled
    THEN [outcome |-> "Cancelled", settle |-> "resolved", code |-> code,
          level |-> "info", text |-> MsgCancelled,
          logLine |-> <<">>> AI Agent process was cancelled.">>]
    ELSE IF code = 0 \/ code = NullCode
    THEN [outcome |-> "Succeeded", settle |-> "resolved", code |-> code,
          level |-> "info", text |-> MsgSuccess,
          logLine |-> <<">>> AI Agent finished successfully!">>]
    ELSE [outcome |-> "Failed", settle |-> "rejected", code |-> code,
          level |-> "error", text |-> FailureMessage(code),
          logLine |-> <<">>> AI Agent process exited with error code ", CodeText(code), ".">>]

\* Mutant: the exit code is inspected before the cancellation flag.
ClassifyCodeFirst(cancelled, code) ==
    IF code = 0
    THEN [outcome |-> "Succeeded", settle |-> "resolved", code |-> code,
          level |-> "info", text |-> MsgSuccess,
          logLine |-> <<">>> AI Agent finished successfully!">>]
    ELSE IF cancelled
    THEN [outcome |-> "Cancelled", settle |-> "resolved", code |-> code,
          level |-> "info", text |-> MsgCancelled,
          logLine |-> <<">>> AI Agent process was cancelled.">>]
    ELSE [outcome |-> "Failed", settle |-> "rejected", code |-> code,
          level |-> "error", text |-> FailureMessage(code),
          logLine |-> <<">>> AI Agent process exited with error code ", CodeText(code), ".">>]

\* What the close handler decides from the cancellation flag and the exit
\* code: the outcome, how the promise settles, the notification and the
\* line appended to the log.
Classify(cancelled, code) ==
    IF cancelled
    THEN [outcome |-> "Cancelled", settle |-> "resolved", code |-> code,
          level |-> "info", text |-> MsgCancelled,
          logLine |-> <<">>> AI Agent process was cancelled.">>]
    ELSE IF code = 0
    THEN [outcome |-> "Succeeded", settle |-> "resolved", code |-> code,
          level |-> "info", text |-> MsgSuccess,
          logLine |-> <<">>> AI Agent finished successfully!">>]
    ELSE [outcome |-> "Failed", settle |-> "rejected", code |-> code,
          level |-> "error", text |-> FailureMessage(code),
          logLine |-> <<">>> AI Agent process exited with error code ", CodeText(code), ".">>]

\* Mutant: the handler is registered on 'exit'.
SettleOnExit == "exit"

\* The child-process event on which runAgent registers the handler that
\* settles its promise.
SettleEvent == "close"

\* --------------------------------------------- provisioning failure message
PipExecutable == "/ext/agent/.venv/bin/pip"
PipArgs == "install -r /ext/agent/requirements.txt"
VenvArgs == "-m venv .venv"

\* String.prototype.includes on the pieces of the texts the model uses.
PieceIncludes(piece, needle) ==
    <<piece, needle>> \in {<<"python", "python">>,
                           <<VenvArgs, "venv">>,
                           <<PipExecutable, "venv">>,
                           <<PipArgs, "requirements.txt">>}

Includes(text, needle) == \E k \in 1..Len(text) : PieceIncludes(text[k], needle)

\* The text of the Error with which runCommand rejects.
CommandFailed(code, cmd, args) ==
    <<"Command failed with code ", CodeText(code), ": ", cmd, " ", args>>

MsgPythonNotFound == <<"Python not found. Please check your Python path in settings.">>
MsgVenvFailed == <<"Failed to create virtual environment. Ensure Python has venv module installed.">>
MsgDepsFailed == <<"Failed to install dependencies. Check if requirements.txt exists and contains valid packages.">>

\* The catch block of setupPythonEnvironment: the user message chosen from
\* the error text.
SetupUserMessage(errorMessage) ==
    IF Includes(errorMessage, "python") THEN MsgPythonNotFound
    ELSE IF Includes(errorMessage, "venv") THEN MsgVenvFailed
    ELSE IF Includes(errorMessage, "requirements.txt") THEN MsgDepsFailed
    ELSE <<"Failed to set up Python environment: ">> \o errorMessage

\* --------------------------------------------------------------- the state
\* The invocations ('submit' messages) the state has room for.
Inv == {1, 2}

VARIABLES
    workspaceOpen,    \* vscode.workspace.workspaceFolders is defined
    config,           \* the settings ibmApiKey, ibmProjectId, pythonPath
    venvExists,       \* the interpreter of the virtual environment is on disk
    log,              \* the output channel: its append calls since the last clear
    pc,               \* where each invocation stands
    cancelRequested,  \* token.isCancellationRequested of each invocation
    listenerPending,  \* a cancellation listener call is scheduled
    agentProcess,     \* the job process of each invocation
    result,           \* the promise runAgent returns, and how it settled
    reports,          \* progress.report calls, in order
    notifs,           \* notifications shown, in order
    posted,           \* 'set-running-state' messages posted to the panel
    spawns,           \* spawn calls of each invocation, exit codes of its sub-commands
    chunkIn,          \* parser specification: the chunk fed
    parsed            \* parser specification: what the handler did with it

pvars == <<chunkIn, parsed>>
lvars == <<workspaceOpen, config, venvExists, log, pc, cancelRequested,
           listenerPending, agentProcess, result, reports, notifs, posted, spawns>>
vars == <<workspaceOpen, config, venvExists, log, pc, cancelRequested,
          listenerPending, agentProcess, result, reports, notifs, posted, spawns,
          chunkIn, parsed>>

NotParsed == [raised |-> FALSE, reports |-> <<>>, done |-> FALSE]

NoCode == 0 - 2       \* no exit code yet

NoEnv == [IBM_API_KEY |-> Undefined, IBM_PROJECT_ID |-> Undefined]

\* out is the text received from the standard output of the process so far.
NoProcess ==
    [state |-> "none", code |-> NoCode, stdoutEnded |-> FALSE, stderrEnded |-> FALSE,
     closed |-> FALSE, sigterm |-> 0, nOut |-> 0, nErr |-> 0, out |-> <<>>, env |-> NoEnv]

Pending == [state |-> "pending", settles |-> 0, outcome |-> "none", code |-> NoCode]

CredValues == {Undefined, "", "k1"}
ProjectIdValues == {Undefined, "", "p1"}
PythonPaths == {"", "py"}

\* One appendLine call of invocation i (0: an earlier invocation).
LogLine(i, text) == [by |-> i, src |-> "line", text |-> text \o <<NL>>]

\* One append call of the stdout handler of invocation i.
LogChunk(i, data) == [by |-> i, src |-> "stdout", text |-> data]

PreviousLog == <<LogLine(0, <<">>> AI Agent finished successfully!">>)>>

NoSpawns == [venv |-> 0, pip |-> 0, job |-> 0, venvCode |-> NoCode, pipCode |-> NoCode]

LifecycleStart ==
    /\ pc = [i \in Inv |-> "idle"]
    /\ cancelRequested = [i \in Inv |-> FALSE]
    /\ listenerPending = [i \in Inv |-> FALSE]
    /\ agentProcess = [i \in Inv |-> NoProcess]
    /\ result = [i \in Inv |-> Pending]
    /\ reports = [i \in Inv |-> <<>>]
    /\ notifs = [i \in Inv |-> <<>>]
    /\ posted = [i \in Inv |-> <<>>]
    /\ spawns = [i \in Inv |-> NoSpawns]

Init ==
    /\ workspaceOpen \in BOOLEAN
    /\ config \in [ibmApiKey : CredValues, ibmProjectId : ProjectIdValues, pythonPath : PythonPaths]
    /\ venvExists \in BOOLEAN
    /\ log \in {<<>>, PreviousLog}
    /\ LifecycleStart
    /\ chunkIn = <<>>
    /\ parsed = NotParsed

\* ------------------------------------------------------------------ helpers
\* !value of a configuration string: absent or empty.
Falsy(v) == v = Undefined \/ v = ""

AppendLine(l, i, text) == Append(l, LogLine(i, text))

SetupReport(text) == [kind |-> "Setup", message |-> <<text>>]

Notif(level, text) == [level |-> level, text |-> text]

\* The end of the 'submit' handler once withProgress has settled: the
\* finally block posts running:false.
FinishPostsNothing(i, settle, outcome, code) ==
    /\ result' = [result EXCEPT ![i] =
                    IF @.state = "pending"
                    THEN [state |-> settle, settles |-> @.settles + 1,
                          outcome |-> outcome, code |-> code]
                    ELSE [@ EXCEPT !.settles = @ + 1]]
    /\ posted' = posted
    /\ pc' = [pc EXCEPT ![i] = "done"]

Finish(i, settle, outcome, code) ==
    /\ result' = [result EXCEPT ![i] =
                    IF @.state = "pending"
                    THEN [state |-> settle, settles |-> @.settles + 1,
                          outcome |-> outcome, code |-> code]
                    ELSE [@ EXCEPT !.settles = @ + 1]]
    /\ posted' = [posted EXCEPT ![i] =
                    IF result[i].state = "pending" THEN Append(@, FALSE) ELSE @]
    /\ pc' = [pc EXCEPT ![i] = "done"]

\* ------------------------------------------------- the 'submit' handler
Submit(i) ==
    /\ pc[i] = "idle"
    /\ IF ~workspaceOpen
       THEN /\ notifs' = [notifs EXCEPT ![i] =
                            Append(@, Notif("error", <<"Please open a project folder first!">>))]
            /\ pc' = [pc EXCEPT ![i] = "done"]
            /\ UNCHANGED <<posted, reports>>
       ELSE /\ posted' = [posted EXCEPT ![i] = Append(@, TRUE)]
            /\ reports' = [reports EXCEPT ![i] =
                            Append(@, SetupReport("Setting up Python environment..."))]
            /\ pc' = [pc EXCEPT ![i] = "stat"]
            /\ UNCHANGED notifs
    /\ UNCHANGED <<workspaceOpen, config, venvExists, log, cancelRequested,
                   listenerPending, agentProcess, result, spawns, pvars>>

\* -------------------------------------------------- setupPythonEnvironment
PythonCommand == IF Falsy(config.pythonPath) THEN "python" ELSE config.pythonPath

\* Step 2: the dependency install is started.
StartInstall(i) ==
    /\ reports' = [reports EXCEPT ![i] = Append(@, SetupReport("Installing dependencies..."))]
    /\ spawns' = [spawns EXCEPT ![i].pip = @ + 1,
                                ![i].venvCode = IF pc[i] = "venv" THEN 0 ELSE @]
    /\ pc' = [pc EXCEPT ![i] = "pip"]

\* The catch blocks of setupPythonEnvironment and of runAgent, and the end
\* of the 'submit' handler, for a failed sub-command.
SetupFailed(i, errorMessage) ==
    /\ notifs' = [notifs EXCEPT ![i] =
                    @ \o <<Notif("error", SetupUserMessage(errorMessage)),
                           Notif("error", <<"Failed to run the agent. Check the output panel for details.">>)>>]
    /\ log' = AppendLine(log, i, <<"[SETUP ERROR] ">> \o errorMessage)
    /\ Finish(i, "rejected", "EnvironmentSetupError", NoCode)

\* Mutant: the environment is created whether or not the interpreter exists.
StatDoneAlwaysCreates(i) ==
    /\ pc[i] = "stat"
    /\ reports' = [reports EXCEPT ![i] =
                    Append(@, SetupReport("Creating virtual environment..."))]
    /\ spawns' = [spawns EXCEPT ![i].venv = @ + 1]
    /\ pc' = [pc EXCEPT ![i] = "venv"]
    /\ UNCHANGED <<workspaceOpen, config, venvExists, log, cancelRequested,
                   listenerPending, agentProcess, result, notifs, posted, pvars>>

\* Step 1: the probe for the interpreter has answered.
StatDone(i) ==
    /\ pc[i] = "stat"
    /\ IF venvExists
       THEN StartInstall(i)
       ELSE /\ reports' = [reports EXCEPT ![i] =
                            Append(@, SetupReport("Creating virtual environment..."))]
            /\ spawns' = [spawns EXCEPT ![i].venv = @ + 1]
            /\ pc' = [pc EXCEPT ![i] = "venv"]
    /\ UNCHANGED <<workspaceOpen, config, venvExists, log, cancelRequested,
                   listenerPending, agentProcess, result, notifs, posted, pvars>>

CommandCodes == {0, 1}

\* Mutant: a failed creation is tried once more.
VenvCloseRetries(i, code, left) ==
    /\ pc[i] = "venv"
    /\ IF code = 0
       THEN /\ venvExists' = TRUE
            /\ StartInstall(i)
            /\ UNCHANGED <<log, result, notifs, posted>>
       ELSE IF spawns[i].venv < 2
       THEN /\ venvExists' = (venvExists \/ left)
            /\ spawns' = [spawns EXCEPT ![i].venv = @ + 1, ![i].venvCode = code]
            /\ UNCHANGED <<log, result, notifs, posted, pc, reports>>
       ELSE /\ venvExists' = (venvExists \/ left)
            /\ SetupFailed(i, CommandFailed(code, PythonCommand, VenvArgs))
            /\ spawns' = [spawns EXCEPT ![i].venvCode = code]
            /\ UNCHANGED reports
    /\ UNCHANGED <<workspaceOpen, config, cancelRequested, listenerPending,
                   agentProcess, pvars>>

\* The environment-creation sub-command has closed.  A failed creation may
\* leave the interpreter behind (left).
VenvClose(i, code, left) ==
    /\ pc[i] = "venv"
    /\ IF code = 0
       THEN /\ venvExists' = TRUE
            /\ StartInstall(i)
            /\ UNCHANGED <<log, result, notifs, posted>>
       ELSE /\ venvExists' = (venvExists \/ left)
            /\ SetupFailed(i, CommandFailed(code, PythonCommand, VenvArgs))
            /\ spawns' = [spawns EXCEPT ![i].venvCode = code]
            /\ UNCHANGED reports
    /\ UNCHANGED <<workspaceOpen, config, cancelRequested, listenerPending,
                   agentProcess, pvars>>

\* ------------------------------------------------------ runAgent, the start
\* Mutant: the banner shows the API key.
StartBannerLogsKey(i) ==
    <<LogLine(i, <<">>> Starting AI Agent with IBM Watsonx.ai...">>),
      LogLine(i, <<">>> Project Path: /project">>),
      LogLine(i, <<">>> API Key: ", config.ibmApiKey>>),
      LogLine(i, <<"---------------------------------------------------", NL>>)>>

StartBanner(i) ==
    <<LogLine(i, <<">>> Starting AI Agent with IBM Watsonx.ai...">>),
      LogLine(i, <<">>> Project Path: /project">>),
      LogLine(i, <<"---------------------------------------------------", NL>>)>>

DefaultIbmUrl == "https://us-south.ml.cloud.ibm.com"

MsgConfigure ==
    <<"Please configure your IBM Watsonx.ai API Key and Project ID in VS Code settings.">>

\* The credential check of runAgent.
CredentialsMissing == Falsy(config.ibmApiKey) \/ Falsy(config.ibmProjectId)

\* runAgent after a successful setupPythonEnvironment: the log is cleared,
\* the credentials are checked, the job process is spawned and the
\* cancellation listener registered.  sp is the record of the spawn calls
\* up to here.
Launch(i, sp) ==
    IF CredentialsMissing
    THEN /\ notifs' = [notifs EXCEPT ![i] =
                         @ \o <<Notif("error", MsgConfigure),
                                Notif("error", <<"Failed to run the agent. Check the output panel for details.">>)>>]
         /\ log' = AppendLine(AppendLine(StartBanner(i), i, <<"[ERROR] ">> \o MsgConfigure),
                              i, <<"[SETUP ERROR] ">> \o MsgConfigure)
         /\ Finish(i, "rejected", "ConfigurationError", NoCode)
         /\ spawns' = sp
         /\ UNCHANGED <<agentProcess, listenerPending>>
    ELSE /\ log' = StartBanner(i)
         /\ spawns' = [sp EXCEPT ![i].job = @ + 1]
         /\ agentProcess' = [agentProcess EXCEPT
                ![i].state = "alive",
                ![i].env = [IBM_API_KEY |-> config.ibmApiKey,
                            IBM_PROJECT_ID |-> config.ibmProjectId]]
         /\ listenerPending' = [listenerPending EXCEPT ![i] = cancelRequested[i]]
         /\ pc' = [pc EXCEPT ![i] = "running"]
         /\ UNCHANGED <<notifs, result, posted>>

\* Mutant: runAgent goes on whatever the exit code of the install.
PipCloseIgnoresCode(i, code) ==
    /\ pc[i] = "pip"
    /\ reports' = [reports EXCEPT ![i] = Append(@, SetupReport("Environment is ready."))]
    /\ Launch(i, [spawns EXCEPT ![i].pipCode = code])
    /\ UNCHANGED <<workspaceOpen, config, venvExists, cancelRequested, pvars>>

\* The dependency-install sub-command has closed.
PipClose(i, code) ==
    /\ pc[i] = "pip"
    /\ IF code = 0
       THEN /\ reports' = [reports EXCEPT ![i] = Append(@, SetupReport("Environment is ready."))]
            /\ Launch(i, [spawns EXCEPT ![i].pipCode = code])
       ELSE /\ SetupFailed(i, CommandFailed(code, PipExecutable, PipArgs))
            /\ spawns' = [spawns EXCEPT ![i].pipCode = code]
            /\ UNCHANGED <<reports, agentProcess, listenerPending>>
    /\ UNCHANGED <<workspaceOpen, config, venvExists, cancelRequested, pvars>>

\* ------------------------------------------------ runAgent, the handlers
\* Mutant: the cancellation listener also resolves the promise.
CancellationListenerResolves(i) ==
    /\ log' = AppendLine(log, i, <<NL, ">>> User requested cancellation. Terminating agent...">>)
    /\ agentProcess' = [agentProcess EXCEPT ![i].sigterm =
                          IF agentProcess[i].state = "alive" THEN @ + 1 ELSE @]
    /\ Finish(i, "resolved", "Cancelled", NoCode)

\* The cancellation listener: a line in the log and SIGTERM to the job
\* process (kill does nothing once the process has exited).
CancellationListener(i) ==
    /\ log' = AppendLine(log, i, <<NL, ">>> User requested cancellation. Terminating agent...">>)
    /\ agentProcess' = [agentProcess EXCEPT ![i].sigterm =
                          IF agentProcess[i].state = "alive" THEN @ + 1 ELSE @]
    /\ UNCHANGED <<result, posted, pc>>

\* Mutant: cancelling sets the flag of the token and calls no listener.
CancelWithoutListener(i) ==
    /\ pc[i] \in {"stat", "venv", "pip", "running"}
    /\ ~cancelRequested[i]
    /\ cancelRequested' = [cancelRequested EXCEPT ![i] = TRUE]
    /\ UNCHANGED <<log, agentProcess, result, posted, pc>>
    /\ UNCHANGED <<workspaceOpen, config, venvExists, listenerPending, reports,
                   notifs, spawns, pvars>>

\* The user presses Cancel on the progress notification, which is shown
\* while withProgress is pending.  A listener registered by then is called.
Cancel(i) ==
    /\ pc[i] \in {"stat", "venv", "pip", "running"}
    /\ ~cancelRequested[i]
    /\ cancelRequested' = [cancelRequested EXCEPT ![i] = TRUE]
    /\ IF pc[i] = "running"
       THEN CancellationListener(i)
       ELSE UNCHANGED <<log, agentProcess, result, posted, pc>>
    /\ UNCHANGED <<workspaceOpen, config, venvExists, listenerPending, reports,
                   notifs, spawns, pvars>>

\* Mutant: a listener registered on a cancelled token is never called.
DeferredCancelDropped(i) ==
    /\ listenerPending[i]
    /\ listenerPending' = [listenerPending EXCEPT ![i] = FALSE]
    /\ UNCHANGED <<log, agentProcess, result, posted, pc>>
    /\ UNCHANGED <<workspaceOpen, config, venvExists, cancelRequested, reports,
                   notifs, spawns, pvars>>

\* A listener registered on a token that was already cancelled is called
\* from a timer.
DeferredCancel(i) ==
    /\ listenerPending[i]
    /\ listenerPending' = [listenerPending EXCEPT ![i] = FALSE]
    /\ CancellationListener(i)
    /\ UNCHANGED <<workspaceOpen, config, venvExists, cancelRequested, reports,
                   notifs, spawns, pvars>>

\* Chunks the job process writes to its standard output and standard error.
StdoutSamples == {<<P1, NL>>, <<TextG, NL, P2, NL>>, <<TextH, NL>>}
StderrSamples == {<<TextG, NL>>}

StreamOpen(i, ended) ==
    /\ agentProcess[i].state \in {"alive", "exited"}
    /\ ~ended
    /\ ~agentProcess[i].closed

\* Mutant: the reports of a chunk are delivered ahead of the earlier ones.
StdoutDataReportsFirst(i, data) ==
    /\ StreamOpen(i, agentProcess[i].stdoutEnded)
    /\ agentProcess[i].nOut < MaxStdout
    /\ agentProcess' = [agentProcess EXCEPT ![i].nOut = @ + 1, ![i].out = @ \o data]
    /\ log' = Append(log, LogChunk(i, data))
    /\ reports' = [reports EXCEPT ![i] = ParseProgress(data).reports \o @]
    /\ UNCHANGED <<workspaceOpen, config, venvExists, pc, cancelRequested,
                   listenerPending, result, notifs, posted, spawns, pvars>>

\* stdout 'data': the chunk is appended to the log and parsed for progress.
StdoutData(i, data) ==
    /\ StreamOpen(i, agentProcess[i].stdoutEnded)
    /\ agentProcess[i].nOut < MaxStdout
    /\ agentProcess' = [agentProcess EXCEPT ![i].nOut = @ + 1, ![i].out = @ \o data]
    /\ log' = Append(log, LogChunk(i, data))
    /\ reports' = [reports EXCEPT ![i] = @ \o ParseProgress(data).reports]
    /\ UNCHANGED <<workspaceOpen, config, venvExists, pc, cancelRequested,
                   listenerPending, result, notifs, posted, spawns, pvars>>

MsgAgentError == <<"Agent Error: See the \"AI Agent\" output channel for details.">>

\* Mutant: the stderr handler rejects the promise of runAgent.
StderrDataRejects(i, data) ==
    /\ StreamOpen(i, agentProcess[i].stderrEnded)
    /\ agentProcess[i].nErr < MaxStderr
    /\ agentProcess' = [agentProcess EXCEPT ![i].nErr = @ + 1]
    /\ log' = AppendLine(log, i, <<"[ERROR] ">> \o data)
    /\ notifs' = [notifs EXCEPT ![i] = Append(@, Notif("error", MsgAgentError))]
    /\ Finish(i, "rejected", "Failed", NoCode)
    /\ UNCHANGED <<workspaceOpen, config, venvExists, cancelRequested,
                   listenerPending, reports, spawns, pvars>>

\* stderr 'data': an [ERROR] line in the log and an error notification.
StderrData(i, data) ==
    /\ StreamOpen(i, agentProcess[i].stderrEnded)
    /\ agentProcess[i].nErr < MaxStderr
    /\ agentProcess' = [agentProcess EXCEPT ![i].nErr = @ + 1]
    /\ log' = AppendLine(log, i, <<"[ERROR] ">> \o data)
    /\ notifs' = [notifs EXCEPT ![i] = Append(@, Notif("error", MsgAgentError))]
    /\ UNCHANGED <<workspaceOpen, config, venvExists, pc, cancelRequested,
                   listenerPending, result, reports, posted, spawns, pvars>>

\* Mutant: a cancelled run rejects the promise of runAgent.
CloseHandlerRejectsCancelled(i, code) ==
    LET d == Classify(cancelRequested[i], code)
        c == IF cancelRequested[i] THEN [d EXCEPT !.settle = "rejected"] ELSE d
    IN  /\ log' = AppendLine(AppendLine(log, i, <<NL, "---------------------------------------------------">>),
                             i, c.logLine)
        /\ notifs' = [notifs EXCEPT ![i] = Append(@, Notif(c.level, c.text))]
        /\ Finish(i, c.settle, c.outcome, c.code)

\* The handler registered on SettleEvent, called with the exit code.
CloseHandler(i, code) ==
    LET c == Classify(cancelRequested[i], code)
    IN  /\ log' = AppendLine(AppendLine(log, i, <<NL, "---------------------------------------------------">>),
                             i, c.logLine)
        /\ notifs' = [notifs EXCEPT ![i] = Append(@, Notif(c.level, c.text))]
        /\ Finish(i, c.settle, c.outcome, c.code)

\* The streams end; a stream may end while the process is alive.
StdoutEnd(i) ==
    /\ StreamOpen(i, agentProcess[i].stdoutEnded)
    /\ agentProcess' = [agentProcess EXCEPT ![i].stdoutEnded = TRUE]
    /\ UNCHANGED <<workspaceOpen, config, venvExists, log, pc, cancelRequested,
                   listenerPending, result, reports, notifs, posted, spawns, pvars>>

StderrEnd(i) ==
    /\ StreamOpen(i, agentProcess[i].stderrEnded)
    /\ agentProcess' = [agentProcess EXCEPT ![i].stderrEnded = TRUE]
    /\ UNCHANGED <<workspaceOpen, config, venvExists, log, pc, cancelRequested,
                   listenerPending, result, reports, notifs, posted, spawns, pvars>>

ExitCodes == (0..MaxExitCode) \cup {NullCode}

\* The job process ends ('exit'): with a code, or by a signal (code null).
ProcessExit(i, code) ==
    /\ agentProcess[i].state = "alive"
    /\ agentProcess' = [agentProcess EXCEPT ![i].state = "exited", ![i].code = code]
    /\ IF SettleEvent = "exit"
       THEN CloseHandler(i, code)
       ELSE UNCHANGED <<log, notifs, result, posted, pc>>
    /\ UNCHANGED <<workspaceOpen, config, venvExists, cancelRequested,
                   listenerPending, reports, spawns, pvars>>

\* Mutant: the rejection of the close handler reaches the catch block of
\* runAgent (as with 'return await').
ProcessCloseCaught(i) ==
    LET c == Classify(cancelRequested[i], agentProcess[i].code)
        closing == AppendLine(AppendLine(log, i, <<NL, "---------------------------------------------------">>),
                              i, c.logLine)
    IN  /\ agentProcess[i].state = "exited"
        /\ agentProcess[i].stdoutEnded /\ agentProcess[i].stderrEnded
        /\ ~agentProcess[i].closed
        /\ agentProcess' = [agentProcess EXCEPT ![i].closed = TRUE]
        /\ log' = IF c.settle = "rejected"
                  THEN AppendLine(closing, i, <<"[SETUP ERROR] ", "Agent process exited with code ", CodeText(c.code)>>)
                  ELSE closing
        /\ notifs' = [notifs EXCEPT ![i] =
                        IF c.settle = "rejected"
                        THEN @ \o <<Notif(c.level, c.text),
                                    Notif("error", <<"Failed to run the agent. Check the output panel for details.">>)>>
                        ELSE Append(@, Notif(c.level, c.text))]
        /\ Finish(i, c.settle, c.outcome, c.code)
        /\ UNCHANGED <<workspaceOpen, config, venvExists, cancelRequested,
                       listenerPending, reports, spawns, pvars>>

\* 'close': the process has ended and both its streams have been closed.
ProcessClose(i) ==
    /\ agentProcess[i].state = "exited"
    /\ agentProcess[i].stdoutEnded /\ agentProcess[i].stderrEnded
    /\ ~agentProcess[i].closed
    /\ agentProcess' = [agentProcess EXCEPT ![i].closed = TRUE]
    /\ IF SettleEvent = "close"
       THEN CloseHandler(i, agentProcess[i].code)
       ELSE UNCHANGED <<log, notifs, result, posted, pc>>
    /\ UNCHANGED <<workspaceOpen, config, venvExists, cancelRequested,
                   listenerPending, reports, spawns, pvars>>

\* ------------------------------------------------------- the specification
Step(i) ==
    \/ Submit(i)
    \/ StatDone(i)
    \/ \E code \in CommandCodes, left \in BOOLEAN : VenvClose(i, code, left)
    \/ \E code \in CommandCodes : PipClose(i, code)
    \/ Cancel(i)
    \/ DeferredCancel(i)
    \/ \E data \in StdoutSamples : StdoutData(i, data)
    \/ \E data \in StderrSamples : StderrData(i, data)
    \/ StdoutEnd(i)
    \/ StderrEnd(i)
    \/ \E code \in ExitCodes : ProcessExit(i, code)
    \/ ProcessClose(i)

\* One invocation, started from any state of the disk, the settings and
\* the output channel that earlier invocations can have left.
Next == Step(1)

Spec == Init /\ [][Next]_vars

\* -------------------------------------- specification of two invocations
\* Invocations started from two panels may overlap: nothing in the 'submit'
\* handler waits for an earlier invocation.  The job processes write little
\* here, so that every interleaving of the two can be explored.
MaxMultiStdout == 1   \* stdout chunks of one job process in MultiSpec

MultiStdoutSamples == {<<P1, NL>>}
MultiExitCodes == {0, 1}

InitMulti ==
    /\ workspaceOpen = TRUE
    /\ config \in [ibmApiKey : {"", "k1"}, ibmProjectId : {"p1"}, pythonPath : {""}]
    /\ venvExists \in BOOLEAN
    /\ log = <<>>
    /\ LifecycleStart
    /\ chunkIn = <<>>
    /\ parsed = NotParsed

MultiStep(i) ==
    \/ (\A j \in Inv : j < i => pc[j] # "idle") /\ Submit(i)
    \/ StatDone(i)
    \/ \E code \in CommandCodes, left \in BOOLEAN : VenvClose(i, code, left)
    \/ \E code \in CommandCodes : PipClose(i, code)
    \/ \E data \in MultiStdoutSamples :
          agentProcess[i].nOut < MaxMultiStdout /\ StdoutData(i, data)
    \/ StdoutEnd(i)
    \/ StderrEnd(i)
    \/ \E code \in MultiExitCodes : ProcessExit(i, code)
    \/ ProcessClose(i)

NextMulti == \E i \in Inv : MultiStep(i)

MultiSpec == InitMulti /\ [][NextMulti]_vars

\* The lifecycle under the scheduling of the child process: its streams end
\* and 'close' is emitted once the process has exited.
InitLive ==
    /\ workspaceOpen = TRUE
    /\ config \in [ibmApiKey : {"", "k1"}, ibmProjectId : {"p1"}, pythonPath : {""}]
    /\ venvExists \in BOOLEAN
    /\ log = PreviousLog
    /\ LifecycleStart
    /\ chunkIn = <<>>
    /\ parsed = NotParsed

LiveExitCodes == {0, 1, NullCode}

LiveStep(i) ==
    \/ Submit(i)
    \/ StatDone(i)
    \/ \E code \in CommandCodes, left \in BOOLEAN : VenvClose(i, code, left)
    \/ \E code \in CommandCodes : PipClose(i, code)
    \/ Cancel(i)
    \/ DeferredCancel(i)
    \/ \E data \in MultiStdoutSamples :
           agentProcess[i].nOut < MaxMultiStdout /\ StdoutData(i, data)
    \/ \E data \in StderrSamples : StderrData(i, data)
    \/ StdoutEnd(i)
    \/ StderrEnd(i)
    \/ \E code \in LiveExitCodes : ProcessExit(i, code)
    \/ ProcessClose(i)

NextLive == LiveStep(1)

LiveSpec ==
    /\ InitLive /\ [][NextLive]_vars
    /\ WF_vars(StdoutEnd(1)) /\ WF_vars(StderrEnd(1)) /\ WF_vars(ProcessClose(1))
    /\ WF_vars(DeferredCancel(1))

\* ------------------------------------------- parser specification
RECURSIVE SeqsUpTo(_, _)
SeqsUpTo(S, n) ==
    IF n = 0 THEN {<<>>}
    ELSE LET shorter == SeqsUpTo(S, n - 1)
         IN  shorter \cup {Append(s, t) : s \in {x \in shorter : Len(x) = n - 1}, t \in S}

\* One progress record followed by three lines of free-form text.
RecordThenFreeForm ==
    {<<p, NL>> \o a \o <<NL>> \o b \o <<NL>> \o c \o e :
        p \in {P1, P2},
        a \in {<<TextG>>, <<TextG, SP, TextH>>},
        b \in {<<TextH>>, <<SP, TextG>>},
        c \in {<<TextG>>, <<TextH, SP>>},
        e \in {<<>>, <<NL>>}}

Chunks == SeqsUpTo(Tokens, MaxChunkLen) \cup RecordThenFreeForm

InitParser ==
    /\ chunkIn \in Chunks
    /\ parsed = NotParsed
    /\ workspaceOpen = TRUE
    /\ config = [ibmApiKey |-> "k1", ibmProjectId |-> "k1", pythonPath |-> ""]
    /\ venvExists = TRUE
    /\ log = <<>>
    /\ LifecycleStart

Feed ==
    /\ ~parsed.done
    /\ parsed' = [raised |-> ParseProgress(chunkIn).raised,
                  reports |-> ParseProgress(chunkIn).reports,
                  done |-> TRUE]
    /\ UNCHANGED <<chunkIn, lvars>>

NextParser == Feed

ParserSpec == InitParser /\ [][NextParser]_vars

\* --------------------------------------------- properties of an invocation
JobSpawned(i) == spawns[i].job > 0

CredentialsPresent ==
    /\ config.ibmApiKey \notin {Undefined, ""}
    /\ config.ibmProjectId \notin {Undefined, ""}

Ended(i) == result[i].state # "pending"

\* The promise was settled for a job process that had been spawned.
JobSettled(i) == JobSpawned(i) /\ Ended(i)

\* The text of the output channel.
RECURSIVE LogText(_)
LogText(l) == IF l = <<>> THEN <<>> ELSE Head(l).text \o LogText(Tail(l))

RECURSIVE Count(_, _)
Count(seq, x) ==
    IF seq = <<>> THEN 0
    ELSE (IF Head(seq) = x THEN 1 ELSE 0) + Count(Tail(seq), x)

LastNotif(i) == notifs[i][Len(notifs[i])]

\* C1: the job process is spawned only when the API key and the project
\* identifier are both present and non-empty, and an invocation without
\* them ends in a configuration error.
C1_NoSpawnWithoutCredentials ==
    \A i \in Inv :
        /\ JobSpawned(i) => CredentialsPresent
        /\ (~CredentialsPresent /\ Ended(i)) => result[i].outcome = "ConfigurationError"

\* C2: when the configuration error is raised, no sub-command of the
\* provisioner and no job process has been started by the invocation.
C2_ConfigurationErrorBeforeAnySpawn ==
    \A i \in Inv :
        result[i].outcome = "ConfigurationError" =>
            spawns[i].venv + spawns[i].pip + spawns[i].job = 0

\* C3: whatever the exit code, an invocation whose cancellation was
\* requested before the exit of its job process was handled is Cancelled.
C3_CancellationPrecedence ==
    \A i \in Inv :
        (JobSettled(i) /\ cancelRequested[i]) =>
            /\ result[i].outcome = "Cancelled"
            /\ result[i].outcome \notin {"Succeeded", "Failed"}

C3_Witness ==
    /\ JobSettled(1) /\ cancelRequested[1]
    /\ agentProcess[1].closed
    /\ agentProcess[1].code = 3
    /\ result[1].outcome = "Cancelled"

\* C4: without cancellation, exit code 0 is Succeeded; 1, 2, 3, 4 are Failed
\* with the general, discovery, execution and documentation message; every
\* other nonzero code is Failed with the 'unexpected error code' message;
\* a Failed result keeps the code.
C4_ExitCodeMapping ==
    \A i \in Inv :
        (JobSettled(i) /\ ~cancelRequested[i] /\ agentProcess[i].code # NullCode) =>
            LET code == agentProcess[i].code
            IN  /\ code = 0 => /\ result[i].outcome = "Succeeded"
                               /\ result[i].state = "resolved"
                /\ code # 0 => /\ result[i].outcome = "Failed"
                               /\ result[i].state = "rejected"
                               /\ result[i].code = code
                               /\ LastNotif(i).level = "error"
                /\ code = 1 => LastNotif(i).text = MsgGeneral
                /\ code = 2 => LastNotif(i).text = MsgDiscovery
                /\ code = 3 => LastNotif(i).text = MsgExecution
                /\ code = 4 => LastNotif(i).text = MsgDocumentation
                /\ code \notin 0..4 =>
                       LastNotif(i).text =
                           <<"Agent process failed with unexpected error code ", ToString(code),
                             ". Check the output panel for details.">>

C4_Witness ==
    /\ JobSettled(1) /\ ~cancelRequested[1]
    /\ agentProcess[1].code = 5
    /\ result[1] = [state |-> "rejected", settles |-> 1, outcome |-> "Failed", code |-> 5]

\* C5: the promise of an invocation settles once, and only when its job
\* process has exited: not when the streams have ended while the process
\* is alive, and not when cancellation is requested.
C5_SettlesOnceOnExit ==
    \A i \in Inv :
        /\ result[i].settles <= 1
        /\ JobSettled(i) => agentProcess[i].state = "exited"
        /\ agentProcess[i].closed => result[i].settles = 1

C5_Witness ==
    /\ agentProcess[1].state = "alive"
    /\ agentProcess[1].stdoutEnded /\ agentProcess[1].stderrEnded
    /\ cancelRequested[1] /\ agentProcess[1].sigterm = 1
    /\ result[1].state = "pending"

\* C6: the outcome is delivered only after both streams of the job process
\* have ended, and no stdout or stderr chunk is handled once it has been
\* delivered.
C6_OutcomeAfterStreams ==
    /\ [](\A i \in Inv :
            JobSettled(i) => agentProcess[i].stdoutEnded /\ agentProcess[i].stderrEnded)
    /\ [][\A i \in Inv :
            JobSettled(i) =>
                /\ agentProcess'[i].nOut = agentProcess[i].nOut
                /\ agentProcess'[i].nErr = agentProcess[i].nErr
                /\ reports'[i] = reports[i]]_vars

C6_Witness ==
    /\ JobSettled(1)
    /\ agentProcess[1].nOut >= 1 /\ agentProcess[1].nErr >= 1
    /\ \E k \in 1..Len(reports[1]) : reports[1][k].kind = "Phase"

\* C7: every stderr chunk is an [ERROR] line of the log, and the error
\* notification that points at the log is shown at most once in an
\* invocation.
C7_OneErrorNotification ==
    \A i \in Inv :
        JobSpawned(i) =>
            /\ Count(LogText(log), "[ERROR] ") = agentProcess[i].nErr
            /\ Count(notifs[i], Notif("error", MsgAgentError)) <= 1

\* ------------------------------------------------ properties of the parser
\* The lines of a chunk as the text has them, nothing trimmed.
RawLines(c) == Split(c)

IsBlank(line) == SelectSeq(line, NotBlank) = <<>>

IsProgressLine(line) == JsonParses(line) /\ JsonParse(line).type = "progress"

IsPhase(r) == r.kind = "Phase"
IsRaw(r) == r.kind = "Raw"

PhaseReports(reps) == SelectSeq(reps, IsPhase)
RawReports(reps) == SelectSeq(reps, IsRaw)

\* The Phase event of every progress line, in line order.
RECURSIVE ExpectedPhases(_)
ExpectedPhases(lines) ==
    IF lines = <<>> THEN <<>>
    ELSE (IF IsProgressLine(Head(lines)) THEN <<PhaseReport(JsonParse(Head(lines)))>> ELSE <<>>)
         \o ExpectedPhases(Tail(lines))

IsPrefix(s, t) == Len(s) <= Len(t) /\ SubSeq(t, 1, Len(s)) = s

NonBlankLines(c) == SelectSeq(RawLines(c), LAMBDA l : ~IsBlank(l))

LastOf(seq) == seq[Len(seq)]

\* C8: every line of a chunk that parses as a record of kind "progress"
\* yields a Phase event with that line's phase and message, wherever the
\* line stands in the chunk (also after an unparsable line).
C8_EveryProgressLineYieldsPhase ==
    parsed.done => PhaseReports(parsed.reports) = ExpectedPhases(RawLines(chunkIn))

\* C9: handling a chunk never raises; Phase events come only from progress
\* records (they are a prefix of the progress lines' events, in order); a
\* progress record followed by three free-form lines yields one Phase event.
C9_ParserRobust ==
    parsed.done =>
        /\ ~parsed.raised
        /\ IsPrefix(PhaseReports(parsed.reports), ExpectedPhases(RawLines(chunkIn)))
        /\ chunkIn \in RecordThenFreeForm => Len(PhaseReports(parsed.reports)) = 1

C9_Witness ==
    /\ parsed.done
    /\ chunkIn \in RecordThenFreeForm
    /\ Len(PhaseReports(parsed.reports)) = 1
    /\ Len(RawReports(parsed.reports)) = 1

\* C10: a chunk with a non-empty line in which no line is accepted by the
\* JSON parser yields exactly one Raw event and no Phase event; the message
\* is the last non-empty line of the chunk (lines compared without their
\* surrounding blanks).
NoParseableLine(c) ==
    /\ NonBlankLines(c) # <<>>
    /\ \A k \in 1..Len(NonBlankLines(c)) : ~JsonParses(NonBlankLines(c)[k])

IsUnknownRecord(line) ==
    /\ JsonParses(line)
    /\ SelectSeq(line, NotBlank)[1] \in {OtherRec, NoKindRec}

C11_UnknownRecordFallsBackToRaw ==
    (parsed.done /\ \E k \in 1..Len(RawLines(chunkIn)) : IsUnknownRecord(RawLines(chunkIn)[k])) =>
        RawReports(parsed.reports) # <<>>

\* ------------------------------------ properties of the log and provisioner
InProgress(i) == pc[i] \in {"stat", "venv", "pip", "running"}

\* The append calls of invocation i that the output channel holds.
EntriesOf(l, i) == SelectSeq(l, LAMBDA e : e.by = i)

\* The text the stdout handler of invocation i has in the output channel.
StdoutOf(l, i) == LogText(SelectSeq(l, LAMBDA e : e.by = i /\ e.src = "stdout"))

\* C12: from the spawn of its job process to its terminal outcome, the
\* stdout text of an invocation in the log is the concatenation of the
\* chunks received so far, in order, and nothing the invocation has
\* appended is removed.
C12_LogHoldsEveryStdoutChunk ==
    [][\A i \in Inv :
         (JobSpawned(i) /\ ~Ended(i)) =>
             /\ StdoutOf(log', i) = agentProcess'[i].out
             /\ IsPrefix(EntriesOf(log, i), EntriesOf(log', i))]_vars

\* A call of the provisioner that has got past step 1: the interpreter was
\* found, or its creation has succeeded.
PastStepOne(i) ==
    /\ pc[i] \in {"pip", "running", "done"}
    /\ posted[i] # <<>>
    /\ spawns[i].venvCode \in {NoCode, 0}

CreationStarts(i) == spawns'[i].venv > spawns[i].venv

\* C13: over the provisioner calls of all invocations, the environment
\* creation is started only by a call that finds no interpreter, never
\* once a creation has succeeded and never twice by one call; the
\* dependency install is run by every call that gets past step 1.
C13_ProvisionerIdempotent ==
    [][\A i \in Inv :
         /\ CreationStarts(i) => ~venvExists
         /\ (\E j \in Inv : spawns[j].venvCode = 0) => ~CreationStarts(i)
         /\ spawns'[i].venv <= 1
         /\ PastStepOne(i)' => spawns'[i].pip = 1]_vars

C13_Witness ==
    /\ spawns[1].venv = 1 /\ spawns[1].venvCode = 0 /\ spawns[1].pip = 1
    /\ PastStepOne(2) /\ spawns[2].venv = 0 /\ spawns[2].pip = 1

CommandFailedCode(code) == code \notin {NoCode, 0}

\* C14: the job process is spawned only after the dependency install of the
\* same invocation has exited with 0, and never in an invocation one of
\* whose provisioning sub-commands exited nonzero.
C14_LaunchAfterProvisioning ==
    \A i \in Inv :
        /\ JobSpawned(i) => spawns[i].pip = 1 /\ spawns[i].pipCode = 0
        /\ (CommandFailedCode(spawns[i].venvCode) \/ CommandFailedCode(spawns[i].pipCode))
               => ~JobSpawned(i)

C14_Witness ==
    /\ JobSpawned(1)
    /\ spawns[1].venv = 1 /\ spawns[1].venvCode = 0
    /\ spawns[1].pip = 1 /\ spawns[1].pipCode = 0

\* The diagnosis shown for a failed provisioning: the notification before
\* the closing 'Failed to run the agent' one.
Diagnosis(i) == notifs[i][Len(notifs[i]) - 1].text

\* C15: a failed dependency install is diagnosed as 'manifest missing or
\* invalid', a failed environment creation as 'interpreter not found' or
\* 'environment-creation capability missing'.
C15_DiagnosisBySubCommand ==
    \A i \in Inv :
        result[i].outcome = "EnvironmentSetupError" =>
            /\ CommandFailedCode(spawns[i].pipCode) => Diagnosis(i) = MsgDepsFailed
            /\ CommandFailedCode(spawns[i].venvCode) =>
                   Diagnosis(i) \in {MsgPythonNotFound, MsgVenvFailed}

\* The job process of invocation i has been spawned and its exit has not
\* been observed by the close handler yet.
ProcessActive(i) == JobSpawned(i) /\ ~agentProcess[i].closed

\* C16: at most one job process is active at any time: no invocation is
\* provisioning or running its job while the job process of another
\* invocation has not fully exited.
C16_AtMostOneActiveProcess ==
    \A i, j \in Inv : (i # j /\ ProcessActive(j)) => ~InProgress(i)

\* C17: a cancellation requested while the job process runs sends SIGTERM to
\* it; SIGTERM is sent at most once in an invocation and never without a
\* cancellation request.
C17_GracefulSignalOnce ==
    /\ [](\A i \in Inv :
            /\ agentProcess[i].sigterm <= 1
            /\ agentProcess[i].sigterm > 0 => cancelRequested[i])
    /\ [][\A i \in Inv :
            (~cancelRequested[i] /\ cancelRequested'[i] /\ agentProcess[i].state = "alive") =>
                agentProcess'[i].sigterm = 1]_vars

C17_Witness ==
    /\ cancelRequested[1]
    /\ agentProcess[1].state = "alive" /\ agentProcess[1].nOut >= 1
    /\ agentProcess[1].sigterm = 1

ShowsFailureMessage(i) ==
    \E k \in 1..Len(notifs[i]) :
        \E code \in {NullCode} \cup (0..(MaxExitCode + 1)) :
            notifs[i][k].text = FailureMessage(code)

\* C18: an invocation whose outcome is Cancelled resolves, its last
\* notification is the information message of the cancellation, and no
\* failure message of an exit code is shown in it.
C18_CancelledIsInformational ==
    \A i \in Inv :
        result[i].outcome = "Cancelled" =>
            /\ result[i].state = "resolved"
            /\ LastNotif(i) = Notif("info", MsgCancelled)
            /\ ~ShowsFailureMessage(i)

C18_Witness ==
    /\ result[1].outcome = "Cancelled"
    /\ agentProcess[1].code = 1 /\ agentProcess[1].nErr >= 1
    /\ LastNotif(1).level = "info"

OutcomeOf(cancelled, code) ==
    IF cancelled THEN "Cancelled" ELSE IF code = 0 THEN "Succeeded" ELSE "Failed"

\* C19: output on stderr never settles the invocation: the result is pending
\* until the exit of the job process has been observed, a stderr chunk
\* changes neither the result nor the position of the invocation, and the
\* outcome is a function of the cancellation flag and the exit code, so a
\* run that wrote to stderr and exits 0 without cancellation is Succeeded.
C19_StderrNeverSettles ==
    /\ [](\A i \in Inv :
            /\ (agentProcess[i].nErr > 0 /\ ~agentProcess[i].closed) =>
                   result[i].state = "pending"
            /\ JobSettled(i) =>
                   result[i].outcome = OutcomeOf(cancelRequested[i], agentProcess[i].code)
            /\ (JobSettled(i) /\ agentProcess[i].nErr > 0 /\ ~cancelRequested[i]
                  /\ agentProcess[i].code = 0) => result[i].outcome = "Succeeded")
    /\ [][\A i \in Inv :
            agentProcess'[i].nErr > agentProcess[i].nErr =>
                result'[i] = result[i] /\ pc'[i] = pc[i]]_vars

C19_Witness ==
    /\ agentProcess[1].nErr = MaxStderr
    /\ ~cancelRequested[1] /\ agentProcess[1].code = 0
    /\ result[1].outcome = "Succeeded"

Elems(seq) == {seq[k] : k \in 1..Len(seq)}

\* The credential values of the configuration.
CredentialTokens == {config.ibmApiKey, config.ibmProjectId} \ {Undefined, ""}

\* What the orchestrator itself writes: its lines of the log, its
\* notifications and its own progress messages.
SetupReports == {r \in UNION {Elems(reports[i]) : i \in Inv} : r.kind = "Setup"}

NotifTexts == UNION {{n.text : n \in Elems(notifs[i])} : i \in Inv}

OrchestratorTokens ==
    Elems(LogText(SelectSeq(log, LAMBDA e : e.src = "line")))
        \cup UNION {Elems(t) : t \in NotifTexts}
        \cup UNION {Elems(r.message) : r \in SetupReports}

\* C20: no credential value occurs in the lines the orchestrator writes to
\* the log, in its notifications or in its progress messages; the values
\* reach the environment of the job process only.
C20_CredentialsNeverLogged ==
    OrchestratorTokens \cap CredentialTokens = {}

C20_Witness ==
    /\ JobSettled(1)
    /\ agentProcess[1].env = [IBM_API_KEY |-> "k1", IBM_PROJECT_ID |-> "p1"]
    /\ agentProcess[1].nErr >= 1
    /\ Len(notifs[1]) >= 2 /\ Len(reports[1]) >= 2

\* ---------------------------------------------- more properties of the parser
UnparsableLines(c) == SelectSeq(NonBlankLines(c), LAMBDA l : ~JsonParses(l))

\* C21: a chunk yields at most one Raw event, however many of its lines are
\* unparsable, and the message of that event is the last non-empty line of
\* the whole chunk (lines compared without their surrounding blanks).
C21_RawFallbackOncePerChunk ==
    parsed.done =>
        /\ Len(RawReports(parsed.reports)) <= 1
        /\ RawReports(parsed.reports) # <<>> =>
               Trim(RawReports(parsed.reports)[1].message) = Trim(LastOf(NonBlankLines(chunkIn)))

C21_Witness ==
    /\ parsed.done
    /\ Len(UnparsableLines(chunkIn)) >= 3
    /\ UnparsableLines(chunkIn)[1] = <<TextG, SP, TextH>>
    /\ RawReports(parsed.reports) = <<RawReport(<<TextH>>)>>
    /\ Len(PhaseReports(parsed.reports)) = 1

\* -------------------------------------------- more properties of an invocation
\* The progress notifications an invocation adds in a step.
NewReports(i) == SubSeq(reports'[i], Len(reports[i]) + 1, Len(reports'[i]))

\* The progress notifications derived from stdout chunks.
StdoutReports(i) == SelectSeq(reports[i], LAMBDA r : r.kind \in {"Phase", "Raw"})

\* C22: progress notifications are delivered in the order in which their
\* chunks were received and, within a chunk, in line order: a step only
\* adds notifications after the ones delivered before, and the ones a
\* stdout chunk adds are Phase events of its progress lines in line order,
\* followed by at most one Raw event.
C22_ProgressInChunkOrder ==
    [][\A i \in Inv :
         /\ IsPrefix(reports[i], reports'[i])
         /\ agentProcess'[i].nOut > agentProcess[i].nOut =>
                LET new == NewReports(i)
                    data == LastOf(log').text
                IN  /\ IsPrefix(PhaseReports(new), ExpectedPhases(RawLines(data)))
                    /\ Len(RawReports(new)) <= 1
                    /\ RawReports(new) # <<>> => LastOf(new).kind = "Raw"
         /\ agentProcess'[i].nOut = agentProcess[i].nOut =>
                StdoutReports(i)' = StdoutReports(i)]_vars

C22_Witness ==
    /\ agentProcess[1].nOut = 2
    /\ agentProcess[1].out = <<TextH, NL, P1, NL>>
    /\ Len(StdoutReports(1)) = 2
    /\ StdoutReports(1)[1] = RawReport(<<TextH>>)
    /\ StdoutReports(1)[2].kind = "Phase"

SpawnCounts(i) == <<spawns[i].venv, spawns[i].pip, spawns[i].job>>

\* C23: nothing is retried: in one invocation the environment creation, the
\* dependency install and the job process are each spawned at most once,
\* and nothing is spawned any more once a sub-command has exited nonzero or
\* the invocation has ended.
C23_NothingRetried ==
    /\ [](\A i \in Inv :
            spawns[i].venv <= 1 /\ spawns[i].pip <= 1 /\ spawns[i].job <= 1)
    /\ [][\A i \in Inv :
            (CommandFailedCode(spawns[i].venvCode) \/ CommandFailedCode(spawns[i].pipCode)
               \/ Ended(i) \/ agentProcess[i].state = "exited") =>
                SpawnCounts(i)' = SpawnCounts(i)]_vars

C23_Witness ==
    /\ spawns[1].venv = 1 /\ CommandFailedCode(spawns[1].venvCode)
    /\ spawns[1].pip = 0 /\ spawns[1].job = 0
    /\ result[1].outcome = "EnvironmentSetupError"

RunningFalsePosted(i) == \E k \in 1..Len(posted[i]) : posted[i][k] = FALSE

\* C24: running:true is posted before provisioning starts; running:false is
\* posted exactly once when the invocation has ended, whatever its outcome,
\* never while the job process is alive, and eventually once the job
\* process has exited.
C24_RunningStateBracketed ==
    /\ [](\A i \in Inv :
            /\ (InProgress(i) \/ spawns[i].venv + spawns[i].pip > 0) =>
                   (posted[i] # <<>> /\ posted[i][1] = TRUE)
            /\ Ended(i) => posted[i] = <<TRUE, FALSE>>
            /\ ~Ended(i) => ~RunningFalsePosted(i)
            /\ agentProcess[i].state = "alive" => ~RunningFalsePosted(i))
    /\ \A i \in Inv :
            (agentProcess[i].state = "exited") ~> (posted[i] = <<TRUE, FALSE>>)

C24_Witness ==
    /\ result[1].outcome = "Failed" /\ agentProcess[1].code = 1
    /\ agentProcess[1].closed /\ agentProcess[1].nErr >= 1
    /\ posted[1] = <<TRUE, FALSE>>

Provisioning(i) == pc[i] \in {"stat", "venv", "pip"}

\* C25: a cancellation requested during provisioning aborts nothing:
\* provisioning goes on to its end, the job process is spawned as without
\* the request, the cancellation listener is then called and sends SIGTERM
\* to the process (if it is still alive by then), and the outcome is
\* Cancelled.
C25_CancelDuringProvisioning ==
    /\ [][\A i \in Inv :
            /\ (Provisioning(i) /\ ~cancelRequested[i] /\ cancelRequested'[i]) =>
                   /\ pc'[i] = pc[i] /\ spawns'[i] = spawns[i]
                   /\ result'[i] = result[i] /\ agentProcess'[i] = agentProcess[i]
            /\ (pc[i] = "venv" /\ spawns'[i].venvCode = 0) => spawns'[i].pip = 1
            /\ (pc[i] = "pip" /\ spawns'[i].pipCode = 0 /\ ~CredentialsMissing) =>
                   /\ spawns'[i].job = 1 /\ agentProcess'[i].state = "alive"
                   /\ cancelRequested[i] => listenerPending'[i]
            /\ (listenerPending[i] /\ ~listenerPending'[i] /\ agentProcess[i].state = "alive") =>
                   agentProcess'[i].sigterm = 1]_vars
    /\ [](\A i \in Inv :
            (JobSettled(i) /\ cancelRequested[i]) => result[i].outcome = "Cancelled")
    /\ \A i \in Inv : listenerPending[i] ~> (~listenerPending[i] /\ cancelRequested[i])

C25_Witness ==
    /\ listenerPending[1] /\ cancelRequested[1]
    /\ spawns[1].venv = 1 /\ spawns[1].pip = 1 /\ JobSpawned(1)
    /\ agentProcess[1].state = "alive" /\ agentProcess[1].sigterm = 0

MsgFailedToRun == <<"Failed to run the agent. Check the output panel for details.">>

ErrorNotifs(i) == SelectSeq(notifs[i], LAMBDA n : n.level = "error")

\* The setup-error report of invocation i: the [SETUP ERROR] line of the log
\* and the 'Failed to run the agent' notification.
HasSetupErrorLine(i) ==
    \E k \in 1..Len(log) :
        log[k].by = i /\ log[k].src = "line" /\ log[k].text[1] = "[SETUP ERROR] "

HasSetupErrorReport(i) ==
    HasSetupErrorLine(i) \/ Count(notifs[i], Notif("error", MsgFailedToRun)) > 0

\* A provisioning or configuration failure shows its own error notification
\* and then the setup-error report.
SetupFailureReported(i) ==
    result[i].outcome \in {"EnvironmentSetupError", "ConfigurationError"} =>
        /\ HasSetupErrorLine(i)
        /\ Len(notifs[i]) >= 2
        /\ LastNotif(i) = Notif("error", MsgFailedToRun)
        /\ notifs[i][Len(notifs[i]) - 1].level = "error"
        /\ notifs[i][Len(notifs[i]) - 1].text # MsgFailedToRun
        /\ Count(notifs[i], Notif("error", MsgFailedToRun)) = 1

\* C26 as stated: a job process that exits nonzero without cancellation
\* shows exactly one error notification, the message of its exit code, and
\* no setup-error report; a provisioning or configuration failure shows its
\* own error notification followed by the setup-error report.
C26_SetupReportOnlyForSetupFailures ==
    \A i \in Inv :
        /\ result[i].outcome = "Failed" =>
               /\ ErrorNotifs(i) = <<Notif("error", FailureMessage(result[i].code))>>
               /\ ~HasSetupErrorReport(i)
        /\ SetupFailureReported(i)

\* C26 as amended: the message of the exit code is shown exactly once and
\* last, and the only other error notifications of such a run are the ones
\* of its stderr chunks, one per chunk.
C26_ExitCodeMessageOnceNoSetupReport ==
    \A i \in Inv :
        /\ result[i].outcome = "Failed" =>
               /\ LastNotif(i) = Notif("error", FailureMessage(result[i].code))
               /\ Count(notifs[i], Notif("error", FailureMessage(result[i].code))) = 1
               /\ Count(notifs[i], Notif("error", MsgAgentError)) = agentProcess[i].nErr
               /\ Len(ErrorNotifs(i)) = agentProcess[i].nErr + 1
               /\ ~HasSetupErrorReport(i)
        /\ (JobSpawned(i) /\ ~Ended(i)) => ~HasSetupErrorReport(i)
        /\ result[i].outcome \in {"Succeeded", "Cancelled"} => ~HasSetupErrorReport(i)
        /\ SetupFailureReported(i)

C26_Witness ==
    /\ result[1].outcome = "Failed" /\ result[1].code = 3
    /\ agentProcess[1].nErr = 1
    /\ Len(ErrorNotifs(1)) = 2
    /\ ~HasSetupErrorReport(1)

\* The step removes text from the output channel.
LogCleared == ~IsPrefix(log, log')

\* C27: the output channel is cleared only by an invocation that starts its
\* job (its provisioning has just succeeded), never while the job process
\* of any invocation is running, and never so that an invocation still in
\* progress loses what it has appended.
C27_LogClearedOnlyBetweenJobs ==
    [][/\ LogCleared =>
            /\ \E i \in Inv : pc[i] = "pip" /\ spawns'[i].pipCode = 0
            /\ \A j \in Inv : ~ProcessActive(j)
       /\ \A j \in Inv :
            (InProgress(j) /\ InProgress(j)') =>
                IsPrefix(EntriesOf(log, j), EntriesOf(log', j))]_vars

\* C28: a job process that ends without a numeric exit code (code null)
\* while no cancellation was requested is a failure: the invocation
\* rejects with the 'unexpected error code' message, and is neither
\* Succeeded nor Cancelled.
C28_NullExitCodeIsFailure ==
    \A i \in Inv :
        (JobSettled(i) /\ agentProcess[i].code = NullCode /\ ~cancelRequested[i]) =>
            /\ result[i].outcome = "Failed"
            /\ result[i].state = "rejected"
            /\ LastNotif(i) = Notif("error",
                   <<"Agent process failed with unexpected error code ", "null",
                     ". Check the output panel for details.">>)
            /\ result[i].outcome \notin {"Succeeded", "Cancelled"}

C28_Witness ==
    /\ JobSettled(1) /\ agentProcess[1].closed
    /\ agentProcess[1].code = NullCode /\ ~cancelRequested[1]
    /\ agentProcess[1].sigterm = 0
    /\ result[1].state = "rejected"

====
